---- MODULE Spec2Model ----
(***************************************************************************)
(* Model of the newsai Slack pipeline.                                     *)
(*                                                                         *)
(*   Spec      SlackMessageCollector.collect_messages                      *)
(*             (src/collect_slack_messages.py): channel discovery, the     *)
(*             per-channel join / fetch loop, the final sort and the       *)
(*             returned statistics.  The Slack service is the environment: *)
(*             each API call is one action whose response is chosen        *)
(*             nondeterministically (a page, or a SlackApiError).  The     *)
(*             run is modelled from the channel listing (line 194) on:     *)
(*             get_users and get_bot_info, called before it, catch their   *)
(*             own errors and touch none of the state of the run.  A       *)
(*             time.sleep changes no state; whether one ran before a page  *)
(*             request is kept in last_request.                            *)
(*   FairSpec  Spec for the runs with no exclusion and one channel filter, *)
(*             with weak fairness on the two next-page actions.            *)
(*   SpecList  the channel discovery alone, against a service that may     *)
(*             list a channel twice.                                       *)
(*   SpecUsers SlackMessageCollector.get_users, called repeatedly on one   *)
(*             collector.                                                  *)
(*   SpecChunk SlackPoster._split_into_chunks (src/post_slack.py), applied *)
(*             to every text over a small alphabet.                        *)
(*   SpecPost  SlackPoster.post (src/post_slack.py): the resolution of the *)
(*             destination, the formatting, _split_into_chunks with the    *)
(*             default max_length, the chat_postMessage calls and the      *)
(*             chat_getPermalink call.                                     *)
(*   FairSpecChunk  SpecChunk with weak fairness on the steps of the call. *)
(*   SpecMain  main (src/main.py): the check of the environment, then      *)
(*             collect_messages and generate_news_text as calls whose      *)
(*             answer is chosen nondeterministically, then SlackPoster.post *)
(*             as in SpecPost.                                             *)
(*                                                                         *)
(* Python strings are sequences of one-character strings, so that          *)
(* str.lower, str.strip, str.split and string comparison are computed      *)
(* rather than assumed.                                                    *)
(***************************************************************************)
EXTENDS Integers, Sequences, FiniteSets, TLC

VARIABLES
    \* ---- SlackMessageCollector / collect_messages ----
    pc,                     \* position inside collect_messages
    service_repeats,        \* the service may list a channel again at the
                            \* head of the next conversations_list page
    exclude_raw,            \* os.environ["SLACK_EXCLUDE_CHANNELS"]
    post_channel,           \* os.environ["SLACK_CHANNEL"]
    excluded_channels,      \* self.excluded_channels
    auto_join,              \* argument auto_join
    channel_filter,         \* argument channel_filter (<<>> is None)
    channels,               \* local channels (discovered so far)
    list_pages,             \* conversations_list calls issued
    idx,                    \* index of the channel the for loop is at
    is_member,              \* local is_member of the current iteration
    gcm_messages,           \* all_messages inside get_channel_messages
    hist_pages,             \* conversations_history calls of the current fetch
    all_messages,           \* local all_messages of collect_messages
    channels_processed,
    channels_with_messages,
    messages,               \* self.messages
    result,                 \* value returned by collect_messages
    join_calls,             \* log: channel ids conversations_join was called for
    fetched,                \* log: channel ids whose history fetch was attempted
    last_fetch,             \* log: how the latest get_channel_messages call ended
    delivered,              \* log: messages of the fetches that ended without error
    returned_total,         \* log: how many messages the get_channel_messages
                            \* calls returned, all together
    fetch_errors,           \* log: channel ids whose history fetch ended in an error
    list_failed,            \* log: a conversations_list call raised SlackApiError
    last_response,          \* the response the paginated loop in progress holds
    last_request,           \* log: the latest request of a paginated operation
    list_log,               \* log: the channel objects conversations_list
                            \* delivered, page after page
    in_channel,             \* log: channel ids conversations_join answered ok
                            \* or already_in_channel for
    \* ---- SlackMessageCollector.get_users ----
    upc,                    \* position inside get_users
    users,                  \* self.users
    members,                \* local members
    user_pages,             \* users_list calls issued by the call in progress
    call_no,                \* number of the get_users call (1 is the first)
    requested,              \* log: the latest call issued a users_list request
    returned_users,         \* log: the value the latest call returned
    first_returned,         \* log: the value the first call returned
    \* ---- SlackPoster._split_into_chunks ----
    cpc,                    \* position inside _split_into_chunks
    text,                   \* argument text
    max_length,             \* argument max_length
    paragraphs,             \* local paragraphs
    p_idx,                  \* index of the paragraph the for loop is at
    current,                \* local current
    chunks,                 \* local chunks (the returned list once cpc = "done")
    sliced,                 \* log: per chunk, TRUE iff it continues the previous
                            \* chunk's paragraph (a later slice of a hard split)
    \* ---- SlackPoster.post / _resolve_channel_id ----
    ppc,                    \* position inside post
    channel_arg,            \* argument channel of post (<<>> is None)
    default_channel,        \* self.default_channel (<<>> is None)
    thread,                 \* argument thread
    summary,                \* argument text of post
    channel_id,             \* local channel_id (<<>> is None)
    resolve_calls,          \* conversations_list calls issued by the resolution
    lookup_log,             \* log: the channel objects the resolution was given
    lookup_failed,          \* log: a conversations_list call of the resolution
                            \* raised SlackApiError
    c_idx,                  \* index of the chunk to post next
    thread_ts,              \* local thread_ts
    posted,                 \* log: the chat_postMessage calls that were answered
    permalink_failed,       \* log: chat_getPermalink raised SlackApiError
    permalink_called,       \* log: chat_getPermalink was called
    outcome,                \* log: which of its messages post printed last
    post_result,            \* value returned by post (<<>> is None)
    \* ---- main ----
    main_pc,                \* position inside main
    slack_token,            \* os.environ.get("SLACK_BOT_TOKEN") (<<>> is None or "")
    openai_key,             \* os.environ.get("OPENAI_API_KEY")
    slack_channel,          \* os.environ.get("SLACK_CHANNEL")
    main_messages,          \* local messages of main
    main_summary,           \* local summary of main (<<>> is None)
    stages,                 \* log: the stages main has invoked, in order
    exit_code               \* value returned by main (<<>> until it returns)

collectorVars == <<pc, service_repeats, exclude_raw, post_channel, excluded_channels, auto_join,
                   channel_filter, channels, list_pages, idx, is_member,
                   gcm_messages, hist_pages, all_messages, channels_processed,
                   channels_with_messages, messages, result, join_calls, fetched,
                   last_fetch, delivered, returned_total, fetch_errors, list_failed,
                   last_response, last_request, list_log, in_channel>>
usersVars == <<upc, users, members, user_pages, call_no, requested,
               returned_users, first_returned>>
chunkVars == <<cpc, text, max_length, paragraphs, p_idx, current, chunks, sliced>>
posterVars == <<ppc, channel_arg, default_channel, thread, summary, channel_id,
                resolve_calls, lookup_log, lookup_failed, c_idx, thread_ts,
                posted, permalink_failed, permalink_called, outcome, post_result>>
mainVars == <<main_pc, slack_token, openai_key, slack_channel, main_messages,
              main_summary, stages, exit_code>>
vars == <<collectorVars, usersVars, chunkVars, posterVars, mainVars>>

-----------------------------------------------------------------------------
(* Bounds of the model                                                     *)

MaxListPages == 2       \* pages of one channel listing
MaxHistPages == 2       \* pages of one channel's history
MaxUserPages == 2       \* pages of one user listing
MaxGetUsersCalls == 2   \* get_users calls on one collector
MaxTextLen == 7         \* characters of a text given to _split_into_chunks
MaxMaxLength == 4       \* largest max_length tried
MaxResolvePages == 2    \* pages of the listing a channel name is resolved with
MaxSummaryLen == 2      \* characters of a text given to post
DefaultMaxLength == 3   \* the default max_length of _split_into_chunks (3500
                        \* at line 47), scaled to the texts given to post

-----------------------------------------------------------------------------
(* Python string primitives                                                *)


NL == "\n"
SP == " "
Whitespace == {SP, NL}

UpperCase == <<"A","B","C","D","E","F","G","H","I","J","K","L","M",
               "N","O","P","Q","R","S","T","U","V","W","X","Y","Z">>
LowerCase == <<"a","b","c","d","e","f","g","h","i","j","k","l","m",
               "n","o","p","q","r","s","t","u","v","w","x","y","z">>

\* str.lower() on one character
LowerChar(c) ==
    IF \E k \in DOMAIN UpperCase : UpperCase[k] = c
    THEN LowerCase[CHOOSE k \in DOMAIN UpperCase : UpperCase[k] = c]
    ELSE c

\* str.lower()
Lower(s) == [k \in DOMAIN s |-> LowerChar(s[k])]

RECURSIVE LStrip(_)
LStrip(s) == IF s # <<>> /\ Head(s) \in Whitespace THEN LStrip(Tail(s)) ELSE s

RECURSIVE RStrip(_)
RStrip(s) ==
    IF s # <<>> /\ s[Len(s)] \in Whitespace
    THEN RStrip(SubSeq(s, 1, Len(s) - 1))
    ELSE s

\* str.strip()
Strip(s) == RStrip(LStrip(s))

\* str.startswith(prefix)
StartsWith(s, prefix) ==
    Len(s) >= Len(prefix) /\ SubSeq(s, 1, Len(prefix)) = prefix

\* str.split(sep): fields between the non-overlapping occurrences of sep,
\* scanned left to right; field is the field being read.
RECURSIVE SplitFrom(_, _, _)
SplitFrom(s, sep, field) ==
    IF s = <<>> THEN <<field>>
    ELSE IF StartsWith(s, sep)
         THEN <<field>> \o SplitFrom(SubSeq(s, Len(sep) + 1, Len(s)), sep, <<>>)
         ELSE SplitFrom(Tail(s), sep, Append(field, Head(s)))

Split(s, sep) == SplitFrom(s, sep, <<>>)

\* sub in s
Contains(s, sub) ==
    \E k \in 0..(Len(s) - Len(sub)) : SubSeq(s, k + 1, k + Len(sub)) = sub

\* x in list
InList(x, list) == \E k \in DOMAIN list : list[k] = x

\* All sequences over alphabet of length at most n
RECURSIVE StringsUpTo(_, _)
StringsUpTo(alphabet, n) ==
    IF n = 0 THEN {<<>>}
    ELSE LET shorter == StringsUpTo(alphabet, n - 1)
         IN  shorter \cup {Append(s, c) : s \in shorter, c \in alphabet}

-----------------------------------------------------------------------------
(* SlackPoster._split_into_chunks                                          *)

ParagraphSep == <<NL, NL>>
TextAlphabet == {"a", SP, NL}

\* mutant of Candidate: the candidate is not stripped
CandidateNoStrip(cur, p) ==
    cur \o (IF cur # <<>> THEN ParagraphSep ELSE <<>>) \o p

\* candidate = (current + ("\n\n" if current else "") + p).strip()
Candidate(cur, p) ==
    Strip(cur \o (IF cur # <<>> THEN ParagraphSep ELSE <<>>) \o p)

\* mutant of Fits: off by one
FitsOffByOne(s, maxlen) == Len(s) <= maxlen + 1

\* len(s) <= max_length
Fits(s, maxlen) == Len(s) <= maxlen

\* min(a, b)
Min(a, b) == IF a <= b THEN a ELSE b

\* the while loop cutting p[start:] into slices p[start:end]; start is 0-based
RECURSIVE HardSplitFrom(_, _, _)
HardSplitFrom(p, maxlen, start) ==
    IF start < Len(p)
    THEN LET end == Min(start + maxlen, Len(p))
         IN  <<SubSeq(p, start + 1, end)>> \o HardSplitFrom(p, maxlen, end)
    ELSE <<>>

HardSplit(p, maxlen) == HardSplitFrom(p, maxlen, 0)

ChunkerIdle ==
    /\ cpc = "idle"
    /\ text = <<>>
    /\ max_length = 0
    /\ paragraphs = <<>>
    /\ p_idx = 0
    /\ current = <<>>
    /\ chunks = <<>>
    /\ sliced = <<>>

ChunkerInit ==
    /\ cpc = "start"
    /\ text \in StringsUpTo(TextAlphabet, MaxTextLen)
    /\ max_length \in 1..MaxMaxLength
    /\ paragraphs = <<>>
    /\ p_idx = 0
    /\ current = <<>>
    /\ chunks = <<>>
    /\ sliced = <<>>

\* lines 48-52: the empty text returns no chunk; otherwise split into paragraphs
SplitStart ==
    /\ cpc = "start"
    /\ IF text = <<>>
       THEN /\ cpc' = "done"
            /\ UNCHANGED <<paragraphs, p_idx, current>>
       ELSE /\ cpc' = "loop"
            /\ paragraphs' = Split(text, ParagraphSep)
            /\ p_idx' = 1
            /\ current' = <<>>
    /\ UNCHANGED <<text, max_length, chunks, sliced>>
    /\ UNCHANGED <<mainVars, collectorVars, usersVars, posterVars>>

\* lines 53-68: one iteration of "for p in paragraphs"
SplitParagraph ==
    /\ cpc = "loop"
    /\ p_idx <= Len(paragraphs)
    /\ LET p == paragraphs[p_idx]
           candidate == Candidate(current, p)
           flushed == IF current # <<>> THEN Append(chunks, current) ELSE chunks
           flushedLog == IF current # <<>> THEN Append(sliced, FALSE) ELSE sliced
           slices == HardSplit(p, max_length)
       IN  IF Fits(candidate, max_length)
           THEN /\ current' = candidate
                /\ UNCHANGED <<chunks, sliced>>
           ELSE IF Fits(p, max_length)
                THEN /\ current' = p
                     /\ chunks' = flushed
                     /\ sliced' = flushedLog
                ELSE /\ current' = <<>>
                     /\ chunks' = flushed \o slices
                     /\ sliced' = flushedLog \o [k \in DOMAIN slices |-> k > 1]
    /\ p_idx' = p_idx + 1
    /\ UNCHANGED <<cpc, text, max_length, paragraphs>>
    /\ UNCHANGED <<mainVars, collectorVars, usersVars, posterVars>>

\* lines 69-71: flush what is left and return
SplitReturn ==
    /\ cpc = "loop"
    /\ p_idx > Len(paragraphs)
    /\ IF current # <<>>
       THEN /\ chunks' = Append(chunks, current)
            /\ sliced' = Append(sliced, FALSE)
       ELSE UNCHANGED <<chunks, sliced>>
    /\ cpc' = "done"
    /\ UNCHANGED <<text, max_length, paragraphs, p_idx, current>>
    /\ UNCHANGED <<mainVars, collectorVars, usersVars, posterVars>>

-----------------------------------------------------------------------------
(* The Slack workspace the collector talks to                              *)

Dev == <<"d", "e", "v">>
Ops == <<"o", "p", "s">>
DevOps == <<"d", "e", "v", "o", "p", "s">>
Comma == <<",">>

\* The channels a workspace may hold, in the order conversations_list reports
\* them.  Which of them exist, and their is_private / is_member flags, vary.
\* Slack channel names are lowercase (the service enforces it).
Workspace == <<[id |-> "C1", name |-> Dev],
               [id |-> "C2", name |-> Ops],
               [id |-> "C3", name |-> DevOps]>>

\* a channel object of a conversations_list page
ChannelObject(k, pr, mb) ==
    [id |-> Workspace[k].id, name |-> Workspace[k].name,
     is_private |-> pr, is_member |-> mb]

Position(id) == CHOOSE k \in DOMAIN Workspace : Workspace[k].id = id

\* the pages conversations_list may return after the channels listed so far:
\* channels not yet listed, each once, in workspace order; a service that
\* repeats may put the channel listed last at the head of the page again
RECURSIVE PagesAfter(_)
PagesAfter(k) ==
    {<<>>} \cup
    UNION {{<<ChannelObject(j, pr, mb)>> \o rest :
               pr \in BOOLEAN, mb \in BOOLEAN, rest \in PagesAfter(j)} :
           j \in (k + 1)..Len(Workspace)}

ListPageChoices(listed) ==
    LET rest == PagesAfter(IF listed = <<>> THEN 0
                           ELSE Position(listed[Len(listed)].id))
    IN  rest \cup (IF service_repeats /\ listed # <<>>
                   THEN {<<listed[Len(listed)]>> \o page : page \in rest}
                   ELSE {})

\* message timestamps: Slack's "seconds.fraction" strings
Ts1000 == <<"1", "0", "0", "0", ".", "1">>
Ts100 == <<"1", "0", "0", ".", "5">>
Ts99 == <<"9", "9", ".", "2">>
TsValues == <<Ts100, Ts1000, Ts99>>

\* the message lists page number n of a channel's history may hold: nothing,
\* or one message
HistoryPageChoices(ch, n) ==
    {<<>>, <<[ts |-> TsValues[((Position(ch.id) + n) % Len(TsValues)) + 1]]>>}

\* error codes a failed conversations_join answers with
JoinErrors == {"already_in_channel", "is_archived", "is_private", "other"}

-----------------------------------------------------------------------------
(* SlackMessageCollector                                                   *)

\* get_excluded_channels
GetExcludedChannels(raw, post) ==
    LET explicit == IF raw # <<>> THEN Split(raw, Comma) ELSE <<>>
    IN  IF post # <<>> /\ ~InList(post, explicit)
        THEN Append(explicit, post)
        ELSE explicit

\* mutant of JoinExcluded: join_channel without its exclusion check
JoinExcludedNever(name, excluded) == FALSE

\* join_channel, line 73: channel_name.lower() in self.excluded_channels
JoinExcluded(name, excluded) == InList(Lower(name), excluded)

\* get_channel_messages, line 97: channel_name in self.excluded_channels
FetchExcluded(name, excluded) == InList(name, excluded)

\* collect_messages, line 237: the channel is filtered out
FilteredOut(name, filter) == filter # <<>> /\ ~Contains(name, filter)

\* mutant of ShouldJoin: the is_private test is missing
ShouldJoinAny(ch, autojoin) == autojoin

\* collect_messages, line 244: a non-member channel is to be joined
ShouldJoin(ch, autojoin) == autojoin /\ ~ch.is_private

\* mutant of JoinResult: an archived channel counts as joined
JoinResultArchivedToo(response) ==
    response \in {"ok", "already_in_channel", "is_archived"}

\* mutant of JoinResult: only a successful join counts, already_in_channel
\* is a failure
JoinResultOkOnly(response) == response = "ok"

\* join_channel, lines 77-92: the value returned for a response of the service
JoinResult(response) == response \in {"ok", "already_in_channel"}

\* get_channel_messages, lines 113-119: enrichment of the messages of a page
Enrich(page, ch) ==
    [k \in DOMAIN page |->
        [ts |-> page[k].ts, channel_id |-> ch.id, channel_name |-> ch.name]]

\* get_channel_messages, lines 155-163: the value returned on SlackApiError
OnHistoryError(accumulated) == <<>>

\* mutant of HasNextPage: has_more alone decides, the cursor is not looked at
HasNextPageNoCursorTest(response) == response.has_more

\* get_channel_messages, lines 124-127: another page is requested
HasNextPage(response) == response.has_more /\ response.next_cursor

\* collect_messages, lines 256-261: the channel counts as processed
CountsAsProcessed(member) == member

\* code-point order of the characters of a timestamp
TsChars == <<".", "0", "1", "2", "3", "4", "5", "6", "7", "8", "9">>
CharOrd(c) == CHOOSE k \in DOMAIN TsChars : TsChars[k] = c

\* Python's str < str
RECURSIVE StrLess(_, _)
StrLess(a, b) ==
    IF b = <<>> THEN FALSE
    ELSE IF a = <<>> THEN TRUE
    ELSE IF Head(a) = Head(b) THEN StrLess(Tail(a), Tail(b))
    ELSE CharOrd(Head(a)) < CharOrd(Head(b))

\* line 270: the sort key, x.get('ts', '')
SortKey(m) == m.ts

\* line 270: key(a) < key(b)
KeyLess(a, b) == StrLess(SortKey(a), SortKey(b))

\* mutant of InsertDesc: a message whose key is already in the list is left out
RECURSIVE InsertDescUnique(_, _)
InsertDescUnique(sorted, m) ==
    IF sorted = <<>> THEN <<m>>
    ELSE IF KeyLess(Head(sorted), m) THEN <<m>> \o sorted
    ELSE IF SortKey(Head(sorted)) = SortKey(m) THEN sorted
    ELSE <<Head(sorted)>> \o InsertDescUnique(Tail(sorted), m)

\* list.sort(key=..., reverse=True) is stable: m goes behind every element
\* whose key is not smaller than its own
RECURSIVE InsertDesc(_, _)
InsertDesc(sorted, m) ==
    IF sorted = <<>> THEN <<m>>
    ELSE IF KeyLess(Head(sorted), m) THEN <<m>> \o sorted
    ELSE <<Head(sorted)>> \o InsertDesc(Tail(sorted), m)

RECURSIVE SortDescFrom(_, _)
SortDescFrom(sorted, rest) ==
    IF rest = <<>> THEN sorted
    ELSE SortDescFrom(InsertDesc(sorted, Head(rest)), Tail(rest))

SortDesc(list) == SortDescFrom(<<>>, list)

NoResult == [status |-> "none"]
NoFetch == [status |-> "none"]
NoResponse == [status |-> "none"]
NoRequest == [op |-> "none", cursor |-> FALSE, slept |-> FALSE]

\* a request of a paginated operation: with a cursor or not, and whether a
\* time.sleep ran between the previous response and this request
Request(op, cursor, slept) == [op |-> op, cursor |-> cursor, slept |-> slept]

\* lines 207-215: the while loop of the channel listing calls
\* conversations_list again with no time.sleep before it
ListPageDelay == FALSE

\* line 129: time.sleep(0.3) before the next conversations_history call
HistoryPageDelay == TRUE

\* mutant of ExtendChannels: a channel already listed is not added again
ExtendDedup(listed, page) ==
    listed \o SelectSeq(page, LAMBDA ch : ~InList(ch, listed))

\* lines 198-204 and 214-215: channels = response.get('channels', []), then
\* channels.extend(...) for every further page
ExtendChannels(listed, page) == listed \o page

\* line 207: while next_cursor
HasNextCursor(response) == response.next_cursor

CollectorIdle ==
    /\ pc = "idle"
    /\ service_repeats = FALSE
    /\ exclude_raw = <<>>
    /\ post_channel = <<>>
    /\ excluded_channels = <<>>
    /\ auto_join = FALSE
    /\ channel_filter = <<>>
    /\ channels = <<>>
    /\ list_pages = 0
    /\ idx = 0
    /\ is_member = FALSE
    /\ gcm_messages = <<>>
    /\ hist_pages = 0
    /\ all_messages = <<>>
    /\ channels_processed = 0
    /\ channels_with_messages = 0
    /\ messages = <<>>
    /\ result = NoResult
    /\ join_calls = <<>>
    /\ fetched = <<>>
    /\ last_fetch = NoFetch
    /\ delivered = <<>>
    /\ returned_total = 0
    /\ fetch_errors = <<>>
    /\ list_failed = FALSE
    /\ last_response = NoResponse
    /\ last_request = NoRequest
    /\ list_log = <<>>
    /\ in_channel = <<>>

\* __init__ (lines 14-18) and the arguments of collect_messages
CollectorInit ==
    /\ pc = "start"
    /\ exclude_raw \in {<<>>, Dev, <<"D", "e", "v">> \o Comma \o Ops}
    /\ post_channel \in {<<>>, DevOps}
    /\ excluded_channels = GetExcludedChannels(exclude_raw, post_channel)
    /\ auto_join \in BOOLEAN
    /\ channel_filter \in {<<>>, Dev}
    /\ channels = <<>>
    /\ list_pages = 0
    /\ idx = 0
    /\ is_member = FALSE
    /\ gcm_messages = <<>>
    /\ hist_pages = 0
    /\ all_messages = <<>>
    /\ channels_processed = 0
    /\ channels_with_messages = 0
    /\ messages = <<>>
    /\ result = NoResult
    /\ join_calls = <<>>
    /\ fetched = <<>>
    /\ last_fetch = NoFetch
    /\ delivered = <<>>
    /\ returned_total = 0
    /\ fetch_errors = <<>>
    /\ list_failed = FALSE
    /\ last_response = NoResponse
    /\ last_request = NoRequest
    /\ list_log = <<>>
    /\ in_channel = <<>>

\* mutant of OnListError: the error is swallowed and the run goes on with the
\* channels listed so far
OnListErrorGoOn(listed) == [pc |-> "loop", result |-> NoResult]

\* lines 219-221: on SlackApiError collect_messages returns the error value,
\* whatever was listed before
OnListError(listed) ==
    [pc |-> "done", result |-> [status |-> "error", messages |-> <<>>]]

\* a conversations_list call and what collect_messages does with the response:
\* lines 198-204 (first page) and 207-215 (later pages)
ListResponse ==
    \/ /\ pc' = OnListError(channels).pc
       /\ result' = OnListError(channels).result
       /\ idx' = 1
       /\ list_failed' = TRUE
       /\ last_response' = NoResponse
       /\ UNCHANGED <<channels, list_pages, list_log>>
    \/ \E page \in ListPageChoices(channels), next_cursor \in BOOLEAN :
          LET response == [next_cursor |-> next_cursor]
          IN  /\ next_cursor => list_pages + 1 < MaxListPages
              /\ channels' = ExtendChannels(channels, page)
              /\ list_log' = list_log \o page
              /\ list_pages' = list_pages + 1
              /\ pc' = IF HasNextCursor(response) THEN "list_more" ELSE "loop"
              /\ last_response' =
                     IF HasNextCursor(response) THEN response ELSE NoResponse
              /\ idx' = 1
              /\ UNCHANGED <<result, list_failed>>

\* lines 194-204: the first conversations_list call
ListChannelsFirst ==
    /\ pc = "start"
    /\ last_request' = Request("conversations_list", FALSE, FALSE)
    /\ ListResponse
    /\ UNCHANGED <<service_repeats,
                   exclude_raw, post_channel, excluded_channels, auto_join,
                   channel_filter, is_member, gcm_messages, hist_pages,
                   all_messages, channels_processed, channels_with_messages,
                   messages, join_calls, fetched, last_fetch, delivered, returned_total,
                   fetch_errors, in_channel>>
    /\ UNCHANGED <<mainVars, usersVars, chunkVars, posterVars>>

\* lines 207-215: a further conversations_list call, with the cursor
ListChannelsNext ==
    /\ pc = "list_more"
    /\ last_request' = Request("conversations_list", TRUE, ListPageDelay)
    /\ ListResponse
    /\ UNCHANGED <<service_repeats,
                   exclude_raw, post_channel, excluded_channels, auto_join,
                   channel_filter, is_member, gcm_messages, hist_pages,
                   all_messages, channels_processed, channels_with_messages,
                   messages, join_calls, fetched, last_fetch, delivered, returned_total,
                   fetch_errors, in_channel>>
    /\ UNCHANGED <<mainVars, usersVars, chunkVars, posterVars>>

\* mutant of NextIndex: an iteration whose join or fetch failed ends the loop
NextIndexBreak(ok) == IF ok THEN idx + 1 ELSE Len(channels) + 1

\* lines 230-264: the for loop goes on with the channel after this one,
\* whether the iteration's join and fetch succeeded (ok) or failed
NextIndex(ok) == idx + 1

\* the for loop moves on to the next channel
NextChannel(ok) ==
    /\ pc' = "loop"
    /\ idx' = NextIndex(ok)

\* lines 256-264: after the join decision, with msgs what
\* get_channel_messages returned when it was called
EndIteration(member, msgs, ok) ==
    /\ all_messages' = all_messages \o msgs
    /\ channels_with_messages' =
           IF msgs # <<>> THEN channels_with_messages + 1
           ELSE channels_with_messages
    /\ channels_processed' =
           IF CountsAsProcessed(member) THEN channels_processed + 1
           ELSE channels_processed
    /\ NextChannel(ok)

\* lines 256-257 and 94-99: a member channel is fetched; for an excluded one
\* get_channel_messages returns [] at once
EnterFetch(ch) ==
    IF FetchExcluded(ch.name, excluded_channels)
    THEN /\ EndIteration(TRUE, <<>>, TRUE)
         /\ UNCHANGED <<gcm_messages, hist_pages, fetched, last_fetch,
                        delivered, returned_total, fetch_errors>>
    ELSE /\ pc' = "fetch"
         /\ gcm_messages' = <<>>
         /\ hist_pages' = 0
         /\ UNCHANGED <<idx, all_messages, channels_processed,
                        channels_with_messages, fetched, last_fetch, delivered, returned_total,
                        fetch_errors>>

\* lines 256 and 264: the channel is not a member after the join attempt
SkipFetch(ok) ==
    /\ EndIteration(FALSE, <<>>, ok)
    /\ UNCHANGED <<gcm_messages, hist_pages, fetched, last_fetch, delivered, returned_total,
                   fetch_errors>>

\* lines 230-257: one iteration of "for channel in channels", up to its
\* first API call
EvaluateChannel ==
    /\ pc = "loop"
    /\ idx <= Len(channels)
    /\ LET ch == channels[idx]
       IN  IF FilteredOut(ch.name, channel_filter)
           THEN /\ NextChannel(TRUE)
                /\ UNCHANGED <<is_member, gcm_messages, hist_pages, all_messages,
                               channels_processed, channels_with_messages,
                               fetched, last_fetch, delivered, returned_total, fetch_errors>>
           ELSE IF ~ch.is_member
           THEN IF ShouldJoin(ch, auto_join)
                THEN IF JoinExcluded(ch.name, excluded_channels)
                     THEN /\ is_member' = FALSE
                          /\ SkipFetch(TRUE)
                     ELSE /\ pc' = "join"
                          /\ is_member' = FALSE
                          /\ UNCHANGED <<idx, gcm_messages, hist_pages,
                                         all_messages, channels_processed,
                                         channels_with_messages, fetched,
                                         last_fetch, delivered, returned_total, fetch_errors>>
                ELSE /\ NextChannel(TRUE)
                     /\ is_member' = FALSE
                     /\ UNCHANGED <<gcm_messages, hist_pages, all_messages,
                                    channels_processed, channels_with_messages,
                                    fetched, last_fetch, delivered, returned_total,
                                    fetch_errors>>
           ELSE /\ is_member' = TRUE
                /\ EnterFetch(ch)
    /\ UNCHANGED <<service_repeats,
                   exclude_raw, post_channel, excluded_channels, auto_join,
                   channel_filter, channels, list_pages, messages, result,
                   join_calls, list_failed, last_response, last_request,
                   list_log, in_channel>>
    /\ UNCHANGED <<mainVars, usersVars, chunkVars, posterVars>>

\* join_channel, lines 77-92, and what collect_messages does with its result
JoinChannel ==
    /\ pc = "join"
    /\ LET ch == channels[idx]
       IN  /\ join_calls' = Append(join_calls, ch.id)
           /\ \E response \in {"ok"} \cup JoinErrors :
                 /\ in_channel' =
                        IF response \in {"ok", "already_in_channel"}
                        THEN Append(in_channel, ch.id)
                        ELSE in_channel
                 /\ is_member' = JoinResult(response)
                 /\ IF JoinResult(response)
                    THEN EnterFetch(ch)
                    ELSE SkipFetch(FALSE)
    /\ UNCHANGED <<service_repeats,
                   exclude_raw, post_channel, excluded_channels, auto_join,
                   channel_filter, channels, list_pages, messages, result,
                   list_failed, last_response, last_request, list_log>>
    /\ UNCHANGED <<mainVars, usersVars, chunkVars, posterVars>>

\* get_channel_messages returns to collect_messages
FetchReturns(ch, ok, pages, accumulated, returned) ==
    /\ fetch_errors' = IF ok THEN fetch_errors ELSE Append(fetch_errors, ch.id)
    /\ last_fetch' = [status |-> IF ok THEN "ok" ELSE "error",
                      pages |-> pages, accumulated |-> accumulated,
                      returned |-> returned]
    /\ delivered' = IF ok THEN delivered \o accumulated ELSE delivered
    /\ returned_total' = returned_total + Len(returned)
    /\ EndIteration(TRUE, returned, ok)
    /\ UNCHANGED <<gcm_messages, hist_pages>>

\* a conversations_history call and what get_channel_messages does with the
\* response: lines 105-121 (first page) and 131-146 (later pages)
HistoryResponse(ch) ==
    \/ /\ FetchReturns(ch, FALSE, hist_pages, gcm_messages,
                       OnHistoryError(gcm_messages))
       /\ last_response' = NoResponse
    \/ \E page \in HistoryPageChoices(ch, hist_pages + 1),
          has_more \in BOOLEAN, next_cursor \in BOOLEAN :
          LET response == [has_more |-> has_more, next_cursor |-> next_cursor]
              got == gcm_messages \o Enrich(page, ch)
          IN  /\ has_more \/ ~next_cursor
              /\ HasNextPage(response) => hist_pages + 1 < MaxHistPages
              /\ IF HasNextPage(response)
                 THEN /\ pc' = "fetch_more"
                      /\ last_response' = response
                      /\ gcm_messages' = got
                      /\ hist_pages' = hist_pages + 1
                      /\ UNCHANGED <<idx, all_messages, channels_processed,
                                     channels_with_messages, last_fetch,
                                     delivered, returned_total, fetch_errors>>
                 ELSE /\ FetchReturns(ch, TRUE, hist_pages + 1, got, got)
                      /\ last_response' = NoResponse

\* lines 101-121: the first conversations_history call of a channel
FetchFirst ==
    /\ pc = "fetch"
    /\ LET ch == channels[idx]
       IN  /\ fetched' = Append(fetched, ch.id)
           /\ last_request' = Request("conversations_history", FALSE, FALSE)
           /\ HistoryResponse(ch)
    /\ UNCHANGED <<service_repeats,
                   exclude_raw, post_channel, excluded_channels, auto_join,
                   channel_filter, channels, list_pages, is_member, messages,
                   result, join_calls, list_failed, list_log, in_channel>>
    /\ UNCHANGED <<mainVars, usersVars, chunkVars, posterVars>>

\* lines 124-146: a further conversations_history call, with the cursor
FetchNext ==
    /\ pc = "fetch_more"
    /\ last_request' =
           Request("conversations_history", TRUE, HistoryPageDelay)
    /\ HistoryResponse(channels[idx])
    /\ UNCHANGED <<service_repeats,
                   exclude_raw, post_channel, excluded_channels, auto_join,
                   channel_filter, channels, list_pages, is_member, messages,
                   result, join_calls, fetched, list_failed, list_log,
                   in_channel>>
    /\ UNCHANGED <<mainVars, usersVars, chunkVars, posterVars>>

\* lines 266-290: sort self.messages and return the result
Finish ==
    /\ pc = "loop"
    /\ idx > Len(channels)
    /\ messages' = SortDesc(all_messages)
    /\ result' = [status |-> "ok",
                  messages |-> messages',
                  total_messages |-> Len(messages'),
                  channels_processed |-> channels_processed,
                  channels_with_messages |-> channels_with_messages]
    /\ pc' = "done"
    /\ UNCHANGED <<service_repeats,
                   exclude_raw, post_channel, excluded_channels, auto_join,
                   channel_filter, channels, list_pages, idx, is_member,
                   gcm_messages, hist_pages, all_messages, channels_processed,
                   channels_with_messages, join_calls, fetched, last_fetch,
                   delivered, returned_total, fetch_errors, list_failed, last_response,
                   last_request, list_log, in_channel>>
    /\ UNCHANGED <<mainVars, usersVars, chunkVars, posterVars>>

-----------------------------------------------------------------------------
(* SlackMessageCollector.get_users                                         *)

\* the members users_list reports, in its order: people, a bot user and
\* Slack's own USLACKBOT
Directory == <<[id |-> "U1", name |-> "ann", is_bot |-> FALSE],
               [id |-> "B1", name |-> "newsbot", is_bot |-> TRUE],
               [id |-> "USLACKBOT", name |-> "slackbot", is_bot |-> FALSE],
               [id |-> "U2", name |-> "bob", is_bot |-> FALSE]>>

MemberPosition(id) == CHOOSE k \in DOMAIN Directory : Directory[k].id = id

\* the pages users_list may return after the members listed so far: members
\* not yet listed, each once, in directory order
RECURSIVE MembersAfter(_)
MembersAfter(k) ==
    {<<>>} \cup
    UNION {{<<Directory[j]>> \o rest : rest \in MembersAfter(j)} :
           j \in (k + 1)..Len(Directory)}

UserPageChoices(listed) ==
    MembersAfter(IF listed = <<>> THEN 0
                 ELSE MemberPosition(listed[Len(listed)].id))

\* the empty dict
EmptyDict == <<>>

\* lines 33-34: bots and USLACKBOT are left out of the directory
SkippedMember(member) == member.is_bot \/ member.id = "USLACKBOT"

\* lines 36-41: the directory entry of a member; real_name defaults to name,
\* display_name to the empty string
UserEntry(member) ==
    [id |-> member.id, name |-> member.name, real_name |-> member.name,
     display_name |-> ""]

\* lines 32-41: for member in members: self.users[user_id] = {...}
RECURSIVE BuildUsers(_, _)
BuildUsers(dict, list) ==
    IF list = <<>> THEN dict
    ELSE LET member == Head(list)
             next == IF SkippedMember(member) THEN dict
                     ELSE [id \in DOMAIN dict \cup {member.id} |->
                              IF id = member.id THEN UserEntry(member)
                              ELSE dict[id]]
         IN  BuildUsers(next, Tail(list))

\* line 21: if self.users (an empty dict is false)
IsCached(dict) == DOMAIN dict # {}

UsersIdle ==
    /\ upc = "idle"
    /\ users = EmptyDict
    /\ members = <<>>
    /\ user_pages = 0
    /\ call_no = 0
    /\ requested = FALSE
    /\ returned_users = EmptyDict
    /\ first_returned = EmptyDict

\* __init__, line 18, and the first get_users call on the collector
UsersInit ==
    /\ upc = "call"
    /\ users = EmptyDict
    /\ members = <<>>
    /\ user_pages = 0
    /\ call_no = 1
    /\ requested = FALSE
    /\ returned_users = EmptyDict
    /\ first_returned = EmptyDict

\* get_users returns value
UsersReturn(value) ==
    /\ upc' = "returned"
    /\ returned_users' = value
    /\ first_returned' = IF call_no = 1 THEN value ELSE first_returned

\* a users_list call and what get_users does with the response: lines 25-26
\* (first page), 30-31 (later pages), 32-43 (after the last page) and 44-46
\* (SlackApiError)
UsersResponse ==
    \/ /\ UsersReturn(EmptyDict)
       /\ UNCHANGED <<users, members, user_pages>>
    \/ \E page \in UserPageChoices(members), next_cursor \in BOOLEAN :
          LET response == [next_cursor |-> next_cursor]
              got == members \o page
          IN  /\ next_cursor => user_pages + 1 < MaxUserPages
              /\ members' = got
              /\ user_pages' = user_pages + 1
              /\ IF HasNextCursor(response)
                 THEN /\ upc' = "users_more"
                      /\ UNCHANGED <<users, returned_users, first_returned>>
                 ELSE /\ users' = BuildUsers(users, got)
                      /\ UsersReturn(users')

\* lines 20-26: get_users up to its first users_list call, or its return of
\* the cached directory
GetUsers ==
    /\ upc = "call"
    /\ IF IsCached(users)
       THEN /\ requested' = FALSE
            /\ UsersReturn(users)
            /\ UNCHANGED <<users, members, user_pages>>
       ELSE /\ requested' = TRUE
            /\ UsersResponse
    /\ UNCHANGED call_no
    /\ UNCHANGED <<mainVars, collectorVars, chunkVars, posterVars>>

\* lines 27-31: a further users_list call, with the cursor
GetUsersNext ==
    /\ upc = "users_more"
    /\ UsersResponse
    /\ UNCHANGED <<call_no, requested>>
    /\ UNCHANGED <<mainVars, collectorVars, chunkVars, posterVars>>

\* the owner of the collector calls get_users again
GetUsersAgain ==
    /\ upc = "returned"
    /\ call_no < MaxGetUsersCalls
    /\ upc' = "call"
    /\ call_no' = call_no + 1
    /\ members' = <<>>
    /\ user_pages' = 0
    /\ UNCHANGED <<users, requested, returned_users, first_returned>>
    /\ UNCHANGED <<mainVars, collectorVars, chunkVars, posterVars>>

-----------------------------------------------------------------------------
(* SlackPoster.post and _resolve_channel_id                                *)

\* None; post tests its values with "not", which the empty string passes too
None == <<>>

\* no thread_ts given to chat_postMessage
NoThread == 0

Hash == "#"
IdC1 == <<"C", "1">>
IdC2 == <<"C", "2">>
IdC3 == <<"C", "3">>
IdG7 == <<"G", "7">>

\* the channels conversations_list reports to the poster, in its order
PostWorkspace == <<[id |-> IdC1, name |-> Dev],
                   [id |-> IdC2, name |-> Ops],
                   [id |-> IdC3, name |-> DevOps]>>

PostPosition(id) == CHOOSE k \in DOMAIN PostWorkspace : PostWorkspace[k].id = id

\* the pages conversations_list may return after the channels listed so far
RECURSIVE PostPagesAfter(_)
PostPagesAfter(k) ==
    {<<>>} \cup
    UNION {{<<PostWorkspace[j]>> \o rest : rest \in PostPagesAfter(j)} :
           j \in (k + 1)..Len(PostWorkspace)}

LookupPageChoices(listed) ==
    PostPagesAfter(IF listed = <<>> THEN 0
                   ELSE PostPosition(listed[Len(listed)].id))

\* the channel and default_channel values post is tried with: nothing, ids,
\* names, names behind one or two '#'
ChannelInputs ==
    {<<None, None>>, <<None, Dev>>, <<IdC1, None>>, <<IdG7, None>>,
     <<Dev, None>>, <<<<Hash>> \o Ops, None>>,
     <<<<Hash, Hash>> \o DevOps, Dev>>}

\* line 80: channel or self.default_channel or ""
EffectiveChannel(channel, default) ==
    IF channel # None THEN channel ELSE default

\* mutant of IsChannelId: only the prefix C marks an id
IsChannelIdOnlyC(channel) == StartsWith(channel, <<"C">>)

\* line 18: channel.startswith("C") or channel.startswith("G")
IsChannelId(channel) ==
    StartsWith(channel, <<"C">>) \/ StartsWith(channel, <<"G">>)

\* mutant of LStripHash: the name is looked up as it was given
KeepHash(s) == s

\* line 20: channel.lstrip("#")
RECURSIVE LStripHash(_)
LStripHash(s) ==
    IF s # <<>> /\ Head(s) = Hash THEN LStripHash(Tail(s)) ELSE s

\* lines 28-30 and 40-42: the id of the first channel of the page with this
\* name, None when the page has none
FindInPage(page, name) ==
    IF \E k \in DOMAIN page : page[k].name = name
    THEN page[CHOOSE k \in DOMAIN page :
                 /\ page[k].name = name
                 /\ \A j \in 1..(k - 1) : page[j].name # name].id
    ELSE None

\* lines 74-77: header + summary + footer (the header and the footer stand for
\* the dated banner lines)
Header == <<"h", NL, NL>>
Footer == <<NL, NL, "f">>
FormatSlackMessage(s) == Header \o s \o Footer

\* the ts the service gives the n-th message posted
ServiceTs(n) == n

\* mutant of ThreadTs: the replies are threaded whatever thread says
ThreadTsAlways(first_ts, threaded) == first_ts

\* line 94: thread_ts = first.get("ts") if thread else None
ThreadTs(first_ts, threaded) == IF threaded THEN first_ts ELSE NoThread

Link == <<"l", "i", "n", "k">>

\* mutant of PermalinkOutcome: a failed chat_getPermalink call is handled as
\* a posting error
PermalinkErrorIsPostError(response) ==
    IF response = "error"
    THEN [outcome |-> "post_error", permalink |-> None]
    ELSE [outcome |-> "success", permalink |-> Link]

\* lines 97-106: what post prints and returns after the chat_getPermalink
\* call
PermalinkOutcome(response) ==
    IF response = "error"
    THEN [outcome |-> "success", permalink |-> None]
    ELSE [outcome |-> "success", permalink |-> Link]

PosterIdle ==
    /\ ppc = "idle"
    /\ channel_arg = None
    /\ default_channel = None
    /\ thread = FALSE
    /\ summary = <<>>
    /\ channel_id = None
    /\ resolve_calls = 0
    /\ lookup_log = <<>>
    /\ lookup_failed = FALSE
    /\ c_idx = 0
    /\ thread_ts = NoThread
    /\ posted = <<>>
    /\ permalink_failed = FALSE
    /\ permalink_called = FALSE
    /\ outcome = "none"
    /\ post_result = None

\* __init__ (lines 11-13) and the arguments of post
PosterInit ==
    /\ ppc = "call"
    /\ \E input \in ChannelInputs :
          channel_arg = input[1] /\ default_channel = input[2]
    /\ thread \in BOOLEAN
    /\ summary \in StringsUpTo(TextAlphabet, MaxSummaryLen)
    /\ channel_id = None
    /\ resolve_calls = 0
    /\ lookup_log = <<>>
    /\ lookup_failed = FALSE
    /\ c_idx = 0
    /\ thread_ts = NoThread
    /\ posted = <<>>
    /\ permalink_failed = FALSE
    /\ permalink_called = FALSE
    /\ outcome = "none"
    /\ post_result = None

\* post returns
PostReturns(printed, value) ==
    /\ ppc' = "done"
    /\ outcome' = printed
    /\ post_result' = value

\* _resolve_channel_id returns id to post: lines 80-83
ResolveReturns(id) ==
    /\ channel_id' = id
    /\ IF id = None
       THEN PostReturns("no_channel", None)
       ELSE /\ ppc' = "resolved"
            /\ UNCHANGED <<outcome, post_result>>

\* a conversations_list call of _resolve_channel_id and what it does with the
\* response: lines 22-30 (first page), 31-42 (later pages), 43-45
ResolveResponse(name) ==
    /\ resolve_calls' = resolve_calls + 1
    /\ \/ /\ lookup_failed' = TRUE
          /\ ResolveReturns(None)
          /\ UNCHANGED lookup_log
       \/ \E page \in LookupPageChoices(lookup_log), next_cursor \in BOOLEAN :
             /\ next_cursor => resolve_calls + 1 < MaxResolvePages
             /\ lookup_log' = lookup_log \o page
             /\ UNCHANGED lookup_failed
             /\ IF FindInPage(page, name) # None
                THEN ResolveReturns(FindInPage(page, name))
                ELSE IF next_cursor
                THEN /\ ppc' = "resolve_more"
                     /\ UNCHANGED <<channel_id, outcome, post_result>>
                ELSE ResolveReturns(None)

\* lines 80 and 15-30: post calls _resolve_channel_id, which answers at once
\* or issues its first conversations_list call
ResolveFirst ==
    /\ ppc = "call"
    /\ LET channel == EffectiveChannel(channel_arg, default_channel)
       IN  IF channel = <<>>
           THEN /\ ResolveReturns(None)
                /\ UNCHANGED <<resolve_calls, lookup_log, lookup_failed>>
           ELSE IF IsChannelId(channel)
           THEN /\ ResolveReturns(channel)
                /\ UNCHANGED <<resolve_calls, lookup_log, lookup_failed>>
           ELSE ResolveResponse(LStripHash(channel))
    /\ UNCHANGED <<channel_arg, default_channel, thread, summary, c_idx,
                   thread_ts, posted, permalink_failed, permalink_called>>
    /\ UNCHANGED <<mainVars, collectorVars, usersVars, chunkVars>>

\* lines 31-42: a further conversations_list call, with the cursor
ResolveNext ==
    /\ ppc = "resolve_more"
    /\ ResolveResponse(
           LStripHash(EffectiveChannel(channel_arg, default_channel)))
    /\ UNCHANGED <<channel_arg, default_channel, thread, summary, c_idx,
                   thread_ts, posted, permalink_failed, permalink_called>>
    /\ UNCHANGED <<mainVars, collectorVars, usersVars, chunkVars>>

\* lines 84-85: the text is formatted and handed to _split_into_chunks with
\* the default max_length
FormatAndSplit ==
    /\ ppc = "resolved"
    /\ ppc' = "chunking"
    /\ cpc' = "start"
    /\ text' = FormatSlackMessage(summary)
    /\ max_length' = DefaultMaxLength
    /\ UNCHANGED <<paragraphs, p_idx, current, chunks, sliced>>
    /\ UNCHANGED <<channel_arg, default_channel, thread, summary, channel_id,
                   resolve_calls, lookup_log, lookup_failed, c_idx, thread_ts,
                   posted, permalink_failed, permalink_called, outcome, post_result>>
    /\ UNCHANGED <<mainVars, collectorVars, usersVars>>

\* mutant of OnPostError: the error of chat_postMessage is swallowed and post
\* goes on to the permalink
OnPostErrorGoOn(k) == [ppc |-> "permalink", outcome |-> "post_error"]

\* lines 107-109: SlackApiError from the chat_postMessage call of chunk
\* number k ends post with the posting-error message
OnPostError(k) == [ppc |-> "done", outcome |-> "post_error"]

\* a chat_postMessage call for chunk number k with this thread_ts, and what
\* post does with the response: lines 90-96 and 107-109
PostMessage(k, ts_arg) ==
    \/ /\ ppc' = OnPostError(k).ppc
       /\ outcome' = OnPostError(k).outcome
       /\ post_result' = None
       /\ UNCHANGED <<c_idx, posted>>
    \/ /\ posted' = Append(posted, [text |-> chunks[k], thread_ts |-> ts_arg,
                                    ts |-> ServiceTs(Len(posted) + 1)])
       /\ c_idx' = k + 1
       /\ ppc' = IF k < Len(chunks) THEN "post_rest" ELSE "permalink"
       /\ UNCHANGED <<outcome, post_result>>

\* lines 86-94: no chunk, or the first chat_postMessage call
PostFirst ==
    /\ ppc = "chunking"
    /\ cpc = "done"
    /\ IF chunks = <<>>
       THEN /\ PostReturns("empty", None)
            /\ UNCHANGED <<c_idx, posted, thread_ts>>
       ELSE /\ PostMessage(1, NoThread)
            /\ thread_ts' = IF Len(posted') > 0
                            THEN ThreadTs(posted'[1].ts, thread)
                            ELSE thread_ts
    /\ UNCHANGED <<channel_arg, default_channel, thread, summary, channel_id,
                   resolve_calls, lookup_log, lookup_failed, permalink_failed, permalink_called>>
    /\ UNCHANGED <<mainVars, collectorVars, usersVars, chunkVars>>

\* lines 95-96: the chat_postMessage call of a further chunk
PostReply ==
    /\ ppc = "post_rest"
    /\ PostMessage(c_idx, thread_ts)
    /\ UNCHANGED <<channel_arg, default_channel, thread, summary, channel_id,
                   resolve_calls, lookup_log, lookup_failed, thread_ts,
                   permalink_failed, permalink_called>>
    /\ UNCHANGED <<mainVars, collectorVars, usersVars, chunkVars>>

\* lines 97-106: the chat_getPermalink call and the return of post
GetPermalink ==
    /\ ppc = "permalink"
    /\ \E response \in {"ok", "error"} :
          /\ permalink_failed' = (response = "error")
          /\ permalink_called' = TRUE
          /\ PostReturns(PermalinkOutcome(response).outcome,
                         PermalinkOutcome(response).permalink)
    /\ UNCHANGED <<channel_arg, default_channel, thread, summary, channel_id,
                   resolve_calls, lookup_log, lookup_failed, c_idx, thread_ts,
                   posted>>
    /\ UNCHANGED <<mainVars, collectorVars, usersVars, chunkVars>>

-----------------------------------------------------------------------------
(* main (src/main.py)                                                      *)

Token == <<"t">>
ApiKey == <<"k">>

\* what os.environ.get gives for the three variables: nothing (unset or
\* empty, both false under "not"), or a value; SLACK_CHANNEL may hold a
\* name, an id, or a name behind '#'
EnvTokens == {None, Token}
EnvKeys == {None, ApiKey}
EnvChannels == {None, Dev, IdC1, <<Hash>> \o Ops}

\* result["messages"] of collect_messages: the messages of the week, newest
\* first, or [] (nothing collected, or the channel listing failed)
CollectedMessages ==
    {<<>>, <<[ts |-> Ts1000]>>, <<[ts |-> Ts1000], [ts |-> Ts100]>>}

\* what generate_news_text returns: None, or the summary of the model
\* (never an empty string: generate_weekly_news.py lines 206-208)
Summaries == StringsUpTo(TextAlphabet, MaxSummaryLen)

\* mutant of AfterCollect: main goes on with no message
AfterCollectGoOn(msgs) == "summarize"

\* lines 29-31: if not messages: return 1
AfterCollect(msgs) == IF msgs = <<>> THEN "done" ELSE "summarize"

\* lines 36-38: if not summary: return 1
AfterSummarize(s) == IF s = None THEN "done" ELSE "post"

MainIdle ==
    /\ main_pc = "idle"
    /\ slack_token = None
    /\ openai_key = None
    /\ slack_channel = None
    /\ main_messages = <<>>
    /\ main_summary = None
    /\ stages = <<>>
    /\ exit_code = <<>>

\* lines 9-12: the environment main starts in
MainInit ==
    /\ main_pc = "start"
    /\ slack_token \in EnvTokens
    /\ openai_key \in EnvKeys
    /\ slack_channel \in EnvChannels
    /\ main_messages = <<>>
    /\ main_summary = None
    /\ stages = <<>>
    /\ exit_code = <<>>

\* return code
MainReturns(code) ==
    /\ main_pc' = "done"
    /\ exit_code' = <<code>>

\* lines 14-22: a missing variable ends main with 1
MainCheckEnv ==
    /\ main_pc = "start"
    /\ IF slack_token = None \/ openai_key = None \/ slack_channel = None
       THEN MainReturns(1)
       ELSE main_pc' = "collect" /\ UNCHANGED exit_code
    /\ UNCHANGED <<slack_token, openai_key, slack_channel, main_messages,
                   main_summary, stages>>
    /\ UNCHANGED <<collectorVars, usersVars, chunkVars, posterVars>>

\* lines 25-31: collect_messages is called and answers with its messages
MainCollect ==
    /\ main_pc = "collect"
    /\ stages' = Append(stages, "collect")
    /\ \E msgs \in CollectedMessages :
          /\ main_messages' = msgs
          /\ IF AfterCollect(msgs) = "done"
             THEN MainReturns(1)
             ELSE main_pc' = AfterCollect(msgs) /\ UNCHANGED exit_code
    /\ UNCHANGED <<slack_token, openai_key, slack_channel, main_summary>>
    /\ UNCHANGED <<collectorVars, usersVars, chunkVars, posterVars>>

\* lines 34-38: generate_news_text is called and answers with a summary or
\* None
MainSummarize ==
    /\ main_pc = "summarize"
    /\ stages' = Append(stages, "summarize")
    /\ \E s \in Summaries :
          /\ main_summary' = s
          /\ IF AfterSummarize(s) = "done"
             THEN MainReturns(1)
             ELSE main_pc' = AfterSummarize(s) /\ UNCHANGED exit_code
    /\ UNCHANGED <<slack_token, openai_key, slack_channel, main_messages>>
    /\ UNCHANGED <<collectorVars, usersVars, chunkVars, posterVars>>

\* lines 41-42: SlackPoster(default_channel=slack_channel) is built and
\* post(text=summary, channel=slack_channel, thread=True) is called
MainPost ==
    /\ main_pc = "post"
    /\ stages' = Append(stages, "post")
    /\ main_pc' = "posting"
    /\ ppc' = "call"
    /\ channel_arg' = slack_channel
    /\ default_channel' = slack_channel
    /\ thread' = TRUE
    /\ summary' = main_summary
    /\ UNCHANGED <<channel_id, resolve_calls, lookup_log, lookup_failed, c_idx,
                   thread_ts, posted, permalink_failed, permalink_called,
                   outcome, post_result>>
    /\ UNCHANGED <<slack_token, openai_key, slack_channel, main_messages,
                   main_summary, exit_code>>
    /\ UNCHANGED <<collectorVars, usersVars, chunkVars>>

\* line 43: post has returned, whatever its value; main returns 0
MainReturnZero ==
    /\ main_pc = "posting"
    /\ ppc = "done"
    /\ MainReturns(0)
    /\ UNCHANGED <<slack_token, openai_key, slack_channel, main_messages,
                   main_summary, stages>>
    /\ UNCHANGED <<collectorVars, usersVars, chunkVars, posterVars>>

-----------------------------------------------------------------------------
(* Specifications                                                          *)

\* a run against a service whose listing holds every channel once
Init ==
    CollectorInit /\ service_repeats = FALSE /\ UsersIdle /\ ChunkerIdle
        /\ PosterIdle /\ MainIdle

Next ==
    \/ ListChannelsFirst
    \/ ListChannelsNext
    \/ EvaluateChannel
    \/ JoinChannel
    \/ FetchFirst
    \/ FetchNext
    \/ Finish

Spec == Init /\ [][Next]_vars

\* Runs with no exclusion and the channel filter "dev".  collect_messages is
\* sequential code: a pagination loop that has a cursor in hand goes on to
\* its next request.
InitFair ==
    Init /\ exclude_raw = <<>> /\ post_channel = <<>> /\ channel_filter = Dev

FairSpec ==
    InitFair /\ [][Next]_vars
        /\ WF_vars(ListChannelsNext) /\ WF_vars(FetchNext)

\* the channel discovery of a run (lines 194-221) against a service whose
\* listing may repeat a channel across pages
InitList ==
    CollectorInit /\ service_repeats = TRUE /\ UsersIdle /\ ChunkerIdle
        /\ PosterIdle /\ MainIdle

NextList == ListChannelsFirst \/ ListChannelsNext

SpecList == InitList /\ [][NextList]_vars

InitChunk ==
    CollectorIdle /\ UsersIdle /\ ChunkerInit /\ PosterIdle /\ MainIdle

NextChunk ==
    \/ SplitStart
    \/ SplitParagraph
    \/ SplitReturn

SpecChunk == InitChunk /\ [][NextChunk]_vars

\* _split_into_chunks is one sequential call: its next statement is always
\* executed
FairSpecChunk == SpecChunk /\ WF_vars(NextChunk)

\* get_users called MaxGetUsersCalls times on one collector
InitUsers ==
    CollectorIdle /\ UsersInit /\ ChunkerIdle /\ PosterIdle /\ MainIdle

NextUsers == GetUsers \/ GetUsersNext \/ GetUsersAgain

SpecUsers == InitUsers /\ [][NextUsers]_vars

\* one call of post: channel resolution, formatting, chunking, posting
InitPost ==
    CollectorIdle /\ UsersIdle /\ ChunkerIdle /\ PosterInit /\ MainIdle

NextPost ==
    \/ ResolveFirst
    \/ ResolveNext
    \/ FormatAndSplit
    \/ SplitStart
    \/ SplitParagraph
    \/ SplitReturn
    \/ PostFirst
    \/ PostReply
    \/ GetPermalink

SpecPost == InitPost /\ [][NextPost]_vars

\* one run of main: the environment check, the collection and the summary as
\* calls that answer, and the whole of post
InitMain ==
    CollectorIdle /\ UsersIdle /\ ChunkerIdle /\ PosterIdle /\ MainInit

NextMain ==
    \/ MainCheckEnv
    \/ MainCollect
    \/ MainSummarize
    \/ MainPost
    \/ ResolveFirst
    \/ ResolveNext
    \/ FormatAndSplit
    \/ SplitStart
    \/ SplitParagraph
    \/ SplitReturn
    \/ PostFirst
    \/ PostReply
    \/ GetPermalink
    \/ MainReturnZero

SpecMain == InitMain /\ [][NextMain]_vars

-----------------------------------------------------------------------------
(* Helpers of the properties                                               *)

\* the number of occurrences of m in list
Count(m, list) == Cardinality({k \in DOMAIN list : list[k] = m})

Digits == <<"0", "1", "2", "3", "4", "5", "6", "7", "8", "9">>
DigitValue(c) == (CHOOSE k \in DOMAIN Digits : Digits[k] = c) - 1

\* the number a string of digits denotes
RECURSIVE Number(_)
Number(ds) ==
    IF ds = <<>> THEN 0
    ELSE Number(SubSeq(ds, 1, Len(ds) - 1)) * 10 + DigitValue(ds[Len(ds)])

RECURSIVE Pow10(_)
Pow10(n) == IF n = 0 THEN 1 ELSE 10 * Pow10(n - 1)

\* float(a) < float(b) for timestamps "seconds.fraction"
NumLess(a, b) ==
    LET ai == Split(a, <<".">>)[1]
        af == Split(a, <<".">>)[2]
        bi == Split(b, <<".">>)[1]
        bf == Split(b, <<".">>)[2]
    IN  (Number(ai) * Pow10(Len(af)) + Number(af)) * Pow10(Len(bf))
          < (Number(bi) * Pow10(Len(bf)) + Number(bf)) * Pow10(Len(af))

-----------------------------------------------------------------------------
(* Properties of collect_messages, checked under Spec                      *)

\* C1: a discovered channel whose name is in the exclusion set never gets a
\* conversations_join call nor a conversations_history call, whatever its
\* is_member / is_private flags and whatever auto_join is.
C1_ExcludedNeverCalled ==
    \A k \in DOMAIN channels :
        InList(channels[k].name, excluded_channels) =>
            /\ ~InList(channels[k].id, join_calls)
            /\ ~InList(channels[k].id, fetched)

\* C1 witness: a finished run with auto_join in which an excluded member
\* channel and an excluded public non-member channel were both evaluated, and
\* another channel was joined.
C1_Witness ==
    /\ pc = "done"
    /\ auto_join
    /\ join_calls # <<>>
    /\ \E k \in DOMAIN channels :
          /\ InList(channels[k].name, excluded_channels)
          /\ ~FilteredOut(channels[k].name, channel_filter)
          /\ channels[k].is_member
    /\ \E k \in DOMAIN channels :
          /\ InList(channels[k].name, excluded_channels)
          /\ ~FilteredOut(channels[k].name, channel_filter)
          /\ ~channels[k].is_member
          /\ ~channels[k].is_private

\* C2: the channels_processed statistic of a returned result equals the number
\* of channels whose history fetch was attempted in the run.
C2_ProcessedIsFetchAttempts ==
    (pc = "done" /\ result.status = "ok") =>
        result.channels_processed = Len(fetched)

\* C3: when a history call fails after at least one page of the channel was
\* fetched, get_channel_messages returns the messages accumulated so far.
C3_PartialFetchReturned ==
    (last_fetch.status = "error" /\ last_fetch.pages >= 1) =>
        last_fetch.returned = last_fetch.accumulated

\* C4: the returned message list is ordered descending by the numeric value
\* of ts.
C4_SortedNumerically ==
    (pc = "done" /\ result.status = "ok") =>
        \A i, j \in DOMAIN result.messages :
            i < j => ~NumLess(result.messages[i].ts, result.messages[j].ts)

\* C8: a failed join call or a failed history call never aborts the run:
\* once a join or history call was issued the run ends with a result, in
\* which every discovered channel was evaluated (each unfiltered member channel
\* outside the exclusion set was fetched, each unfiltered public non-member
\* channel outside it got its join attempt under auto_join) and which holds
\* every message of every fetch that ended without error.
C8_FailureIsolated ==
    (pc = "done" /\ (join_calls # <<>> \/ fetched # <<>>)) =>
        /\ result.status = "ok"
        /\ \A k \in DOMAIN channels :
              LET ch == channels[k]
              IN  (~FilteredOut(ch.name, channel_filter)
                      /\ ~InList(ch.name, excluded_channels)) =>
                     /\ ch.is_member => InList(ch.id, fetched)
                     /\ (~ch.is_member /\ ~ch.is_private /\ auto_join) =>
                            InList(ch.id, join_calls)
        /\ \A k \in DOMAIN delivered :
              Count(delivered[k], delivered)
                  <= Count(delivered[k], result.messages)

\* C8 witness: a finished run in which the join of one channel failed, the
\* fetch of a later channel failed, and a channel after both was fetched and
\* its messages returned.
C8_Witness ==
    /\ pc = "done"
    /\ \E j, f, g \in DOMAIN channels :
          /\ j < f /\ f < g
          /\ InList(channels[j].id, join_calls)
          /\ ~InList(channels[j].id, fetched)
          /\ InList(channels[f].id, fetch_errors)
          /\ InList(channels[g].id, fetched)
          /\ ~InList(channels[g].id, fetch_errors)
          /\ \E k \in DOMAIN result.messages :
                result.messages[k].channel_id = channels[g].id

\* C9: when a conversations_list call fails, on the first page or a later
\* one, the run ends at once with an empty message list and the error value,
\* and no join or history call is issued.
C9_ListFailureIsFatal ==
    list_failed =>
        /\ pc = "done"
        /\ result.status = "error"
        /\ result.messages = <<>>
        /\ join_calls = <<>>
        /\ fetched = <<>>

\* C9 witness: the listing failed on a later page, after a page with a member
\* channel outside the exclusion set had arrived.
C9_Witness ==
    /\ list_failed
    /\ list_pages >= 1
    /\ \E k \in DOMAIN channels :
          /\ channels[k].is_member
          /\ ~InList(channels[k].name, excluded_channels)
          /\ ~FilteredOut(channels[k].name, channel_filter)

\* C10: a private channel the bot is not a member of never gets a
\* conversations_join call, even with auto_join, and is never fetched.
C10_PrivateNeverJoined ==
    \A k \in DOMAIN channels :
        (channels[k].is_private /\ ~channels[k].is_member) =>
            /\ ~InList(channels[k].id, join_calls)
            /\ ~InList(channels[k].id, fetched)

\* C10 witness: a finished run with auto_join in which a private non-member
\* channel, neither filtered out nor excluded, was evaluated and a public
\* non-member channel was joined.
C10_Witness ==
    /\ pc = "done"
    /\ auto_join
    /\ join_calls # <<>>
    /\ \E k \in DOMAIN channels :
          /\ channels[k].is_private
          /\ ~channels[k].is_member
          /\ ~FilteredOut(channels[k].name, channel_filter)
          /\ ~InList(channels[k].name, excluded_channels)
          /\ ~InList(Lower(channels[k].name), excluded_channels)

\* C21: the total_messages statistic is the length of the returned message
\* list, which is the number of messages the history fetches of the run
\* returned: the list holds every collected message as often as it was
\* collected, none dropped and none duplicated by the sort.
C21_TotalIsSumOfFetches ==
    (pc = "done" /\ result.status = "ok") =>
        /\ result.total_messages = Len(result.messages)
        /\ Len(result.messages) = returned_total
        /\ \A k \in DOMAIN all_messages :
              Count(all_messages[k], result.messages)
                  = Count(all_messages[k], all_messages)

\* C21 witness: a finished run whose fetches of two channels returned three
\* messages or more, two of them with the same ts.
C21_Witness ==
    /\ pc = "done"
    /\ result.status = "ok"
    /\ result.total_messages >= 3
    /\ channels_with_messages >= 2
    /\ \E i, j \in DOMAIN result.messages :
          i # j /\ result.messages[i].ts = result.messages[j].ts

\* the channel with this id was listed with is_member set
ListedAsMember(id) ==
    \E j \in DOMAIN channels : channels[j].id = id /\ channels[j].is_member

\* C11: conversations_history is called for a channel only if the channel
\* ended its membership evaluation as a member: it was listed with is_member
\* set, or conversations_join answered ok or already_in_channel for it earlier
\* in the run.  A channel whose join failed, or that was skipped, is never
\* fetched.
C11_FetchOnlyMembers ==
    \A k \in DOMAIN fetched :
       ListedAsMember(fetched[k]) \/ InList(fetched[k], in_channel)

\* C11 witness: a finished run that fetched a channel listed as a member and
\* a channel it had just joined, and left alone a channel whose join failed.
C11_Witness ==
    /\ pc = "done"
    /\ result.status = "ok"
    /\ \E a \in DOMAIN fetched : ListedAsMember(fetched[a])
    /\ \E b \in DOMAIN fetched :
          ~ListedAsMember(fetched[b]) /\ InList(fetched[b], in_channel)
    /\ \E c \in DOMAIN join_calls :
          ~InList(join_calls[c], in_channel) /\ ~InList(join_calls[c], fetched)

\* C12: when the channel listing ends, the discovered channels are exactly
\* the channel objects of all the pages received, in page order: none
\* dropped, none added, and a channel the service lists twice is kept twice.
C12_AllPagesInOrder ==
    pc = "loop" => channels = list_log

\* C12 witness: a listing of two pages ended, the second page beginning with
\* the channel the first one ended with.
C12_Witness ==
    /\ pc = "loop"
    /\ list_pages >= 2
    /\ Len(channels) >= 3
    /\ \E k \in DOMAIN channels :
          k > 1 /\ channels[k] = channels[k - 1]

\* C13: in every paginated operation a delay step runs between two successive
\* page requests: a request that carries a cursor is preceded by a sleep.
C13_DelayBetweenPages ==
    last_request.cursor => last_request.slept

\* the positions from which a further page is requested
AwaitingNextPage == pc \in {"list_more", "fetch_more"}

ToBeJoined(ch) ==
    /\ auto_join
    /\ ~FilteredOut(ch.name, channel_filter)
    /\ ~ch.is_member
    /\ ~ch.is_private
    /\ ~InList(ch.name, excluded_channels)

\* C20: for a public channel the collector is not a member of and that is not
\* excluded, with auto-join on, exactly one conversations_join call is made;
\* if the service answers ok or already_in_channel, the channel's history is
\* fetched in the same run.
C20_JoinOnceThenFetch ==
    /\ \A k \in DOMAIN Workspace : Count(Workspace[k].id, join_calls) <= 1
    /\ (pc = "done" /\ result.status = "ok") =>
          \A j \in DOMAIN channels :
             ToBeJoined(channels[j]) =>
                /\ Count(channels[j].id, join_calls) = 1
                /\ InList(channels[j].id, in_channel) =>
                      InList(channels[j].id, fetched)

\* C20 witness: a finished run that joined one such channel and fetched it,
\* and called conversations_join in vain for another.
C20_Witness ==
    /\ pc = "done"
    /\ result.status = "ok"
    /\ \E j \in DOMAIN channels :
          /\ ToBeJoined(channels[j])
          /\ InList(channels[j].id, in_channel)
          /\ InList(channels[j].id, fetched)
    /\ \E j \in DOMAIN channels :
          /\ ToBeJoined(channels[j])
          /\ ~InList(channels[j].id, in_channel)
          /\ ~InList(channels[j].id, fetched)

-----------------------------------------------------------------------------
(* Properties of get_users, checked under SpecUsers                        *)

\* C19: once a first get_users call has returned, every later call issues no
\* users_list request and returns the directory the first call returned.
C19_DirectoryCachedOnce ==
    (call_no > 1 /\ upc = "returned") =>
        (~requested /\ returned_users = first_returned)

-----------------------------------------------------------------------------
(* Properties of post and _resolve_channel_id, checked under SpecPost      *)

\* the destination post resolves
Destination == EffectiveChannel(channel_arg, default_channel)

\* the resolution of the destination is over
Resolved == ppc \notin {"call", "resolve_more"}

\* the destination begins with one of the letters channel ids begin with
LooksLikeId(channel) == channel # <<>> /\ Head(channel) \in {"C", "G"}

\* a display name, bare or behind one '#'
IsDisplayName(channel) ==
    /\ channel # <<>>
    /\ ~LooksLikeId(channel)
    /\ ~StartsWith(channel, <<Hash, Hash>>)

DisplayName(channel) ==
    IF Head(channel) = Hash THEN Tail(channel) ELSE channel

\* where the listing given to the resolution holds a channel of this name
Hits(name) == {k \in DOMAIN lookup_log : lookup_log[k].name = name}

\* C15: a destination that looks like a channel id is returned unchanged by
\* the resolution, with no conversations_list call.
C15_IdUsedDirectly ==
    (Resolved /\ LooksLikeId(Destination)) =>
        (channel_id = Destination /\ resolve_calls = 0)

\* C15 witness: a post to a destination beginning with G went through.
C15_Witness ==
    /\ ppc = "done"
    /\ outcome = "success"
    /\ channel_arg = IdG7
    /\ channel_id = IdG7

\* C16: a display name, with or without the leading '#', resolves to the id
\* of the listed channel of that name, on whichever page it is; the
\* resolution fails exactly when no listed channel has the name or a
\* conversations_list call fails.
C16_NameResolved ==
    (Resolved /\ IsDisplayName(Destination)) =>
        LET hits == Hits(DisplayName(Destination))
        IN  /\ hits # {} =>
                  channel_id =
                      lookup_log[CHOOSE k \in hits : \A j \in hits : k <= j].id
            /\ (channel_id = None) <=> (hits = {} \/ lookup_failed)

\* C16 witness: "#ops" was resolved to its id with the second page of the
\* listing, and the post went through.
C16_Witness ==
    /\ ppc = "done"
    /\ outcome = "success"
    /\ channel_arg = <<Hash>> \o Ops
    /\ resolve_calls = 2
    /\ channel_id = IdC2

\* C17: the chunks are posted in order, one chat_postMessage call each; the
\* first has no thread_ts; with thread set every later one carries the ts the
\* service returned for the first, without it none carries a thread_ts.
C17_ChunksPostedInOrder ==
    /\ Len(posted) <= Len(chunks)
    /\ \A k \in DOMAIN posted :
          /\ posted[k].text = chunks[k]
          /\ posted[k].thread_ts =
                 IF k > 1 /\ thread THEN posted[1].ts ELSE NoThread
    /\ (ppc = "done" /\ outcome = "success") => Len(posted) = Len(chunks)

\* C17 witness: a threaded post of three chunks or more went through.
C17_Witness ==
    /\ ppc = "done"
    /\ outcome = "success"
    /\ thread
    /\ Len(posted) >= 3
    /\ posted[3].thread_ts = posted[1].ts

\* C23: when the chat_postMessage call of chunk k fails, post stops there:
\* the chunks before k stay posted, no later chunk is posted,
\* chat_getPermalink is not called and post returns no permalink.
C23_PostStopsAtFailure ==
    outcome = "post_error" =>
        /\ ppc = "done"
        /\ post_result = None
        /\ ~permalink_called
        /\ Len(posted) < Len(chunks)
        /\ \A k \in DOMAIN posted : posted[k].text = chunks[k]

\* C23 witness: post ended at the failed call of the second or a later chunk
\* of three or more.
C23_Witness ==
    /\ ppc = "done"
    /\ outcome = "post_error"
    /\ Len(posted) >= 1
    /\ Len(chunks) >= 3

\* C18: when every chunk was posted and chat_getPermalink fails, post still
\* ends as a success: it prints the completion message, not the posting
\* error, makes no further chat_postMessage call and returns no permalink.
C18_PermalinkFailureNotFatal ==
    (ppc = "done" /\ permalink_failed) =>
        /\ outcome = "success"
        /\ post_result = None
        /\ Len(posted) = Len(chunks)

\* C18 witness: a post of several chunks ended after chat_getPermalink
\* failed.
C18_Witness ==
    /\ ppc = "done"
    /\ permalink_failed
    /\ Len(posted) >= 2

-----------------------------------------------------------------------------
(* Properties of _split_into_chunks, checked under SpecChunk               *)

\* the chunks joined again: a later slice of a hard-split paragraph directly
\* behind the slice before it, every other chunk behind a blank line
RECURSIVE Rejoin(_, _)
Rejoin(cs, cont) ==
    IF cs = <<>> THEN <<>>
    ELSE IF Len(cs) = 1 THEN cs[1]
    ELSE Rejoin(SubSeq(cs, 1, Len(cs) - 1), SubSeq(cont, 1, Len(cs) - 1))
           \o (IF cont[Len(cs)] THEN <<>> ELSE ParagraphSep)
           \o cs[Len(cs)]

\* C5: no emitted chunk is longer than max_length.
C5_ChunksFit ==
    \A k \in DOMAIN chunks : Len(chunks[k]) <= max_length

\* C5 witness: a finished split of a text longer than max_length that flushed
\* a paragraph and then emitted the slices of a hard-split paragraph, the
\* first slice being max_length characters long.
C5_Witness ==
    /\ cpc = "done"
    /\ Len(text) > max_length
    /\ Len(chunks) >= 3
    /\ \E k \in DOMAIN chunks :
          k > 1 /\ sliced[k] /\ Len(chunks[k - 1]) = max_length

\* C6: re-joining the emitted chunks reconstructs the text exactly.
C6_RejoinIsText ==
    cpc = "done" => Rejoin(chunks, sliced) = text

\* C22: a paragraph no longer than max_length lies whole inside one chunk; a
\* longer one is cut into consecutive slices of max_length characters (the
\* last may be shorter), each a chunk of its own.
C22_ParagraphsKeptWhole ==
    cpc = "done" =>
        \A k \in DOMAIN paragraphs :
           LET p == paragraphs[k]
               slices == HardSplit(p, max_length)
           IN  IF Len(p) <= max_length
               THEN p = <<>> \/ \E c \in DOMAIN chunks : Contains(chunks[c], p)
               ELSE \E c \in DOMAIN chunks :
                       /\ c + Len(slices) - 1 <= Len(chunks)
                       /\ SubSeq(chunks, c, c + Len(slices) - 1) = slices

\* the text holds nothing but whitespace and paragraph separators
OnlyWhitespace(s) == \A k \in DOMAIN s : s[k] \in Whitespace

\* C24: for every text and every max_length >= 1 _split_into_chunks
\* terminates, every chunk it emits is non-empty, and it emits zero chunks
\* exactly when the text holds nothing but whitespace and paragraph
\* separators.
C24_TerminatesWithNonEmptyChunks ==
    /\ <>(cpc = "done")
    /\ [](\A k \in DOMAIN chunks : chunks[k] # <<>>)
    /\ [](cpc = "done" => (chunks = <<>> <=> OnlyWhitespace(text)))

\* C24 witness: a finished split of a non-empty text of whitespace and at
\* least one paragraph separator, with no chunk emitted.
C24_Witness ==
    /\ cpc = "done"
    /\ text # <<>>
    /\ OnlyWhitespace(text)
    /\ Len(paragraphs) >= 2
    /\ chunks = <<>>

\* the three stages of main, in the order of the source
Pipeline == <<"collect", "summarize", "post">>

\* collection returned at least one message and the summarizer a non-empty
\* summary
ReadyToPost == main_messages # <<>> /\ main_summary # None

\* C25: main runs its stages strictly in the order collect, summarize, post;
\* the post stage is invoked only if collection returned at least one message
\* and the summarizer returned a non-empty summary; in every other case main
\* returns a nonzero exit code without any chat_postMessage call.
C25_PipelineOrder ==
    /\ Len(stages) <= Len(Pipeline)
    /\ stages = SubSeq(Pipeline, 1, Len(stages))
    /\ InList("post", stages) => ReadyToPost
    /\ ppc # "idle" => InList("post", stages)
    /\ ~ReadyToPost => posted = <<>>
    /\ (main_pc = "done" /\ ~ReadyToPost) =>
          (exit_code # <<0>> /\ posted = <<>> /\ ppc = "idle")

\* C25 witness: main ran all three stages, post made two or more
\* chat_postMessage calls and main returned 0.
C25_Witness ==
    /\ main_pc = "done"
    /\ stages = Pipeline
    /\ ReadyToPost
    /\ Len(posted) >= 2
    /\ exit_code = <<0>>

\* C7: a text no longer than max_length is returned as exactly one chunk,
\* equal to the text.
C7_ShortTextOneChunk ==
    (cpc = "done" /\ Len(text) <= max_length) => chunks = <<text>>

====
